---------------------------- MODULE Spec2Model ----------------------------
(***************************************************************************)
(* A model of the PO compiler of gettext-parser (src/lib/pocompiler.js).   *)
(*                                                                         *)
(* A JavaScript string is a sequence of one-character strings, so that     *)
(* split, trim, replace, join and the comparison of strings are computed   *)
(* character by character as the code computes them.  An unset string      *)
(* property (undefined) and the empty string are both falsy everywhere the *)
(* compiler reads them (x || default, if (x)); both are the empty          *)
(* sequence.                                                               *)
(***************************************************************************)
EXTENDS Integers, Sequences, FiniteSets, TLC

VARIABLES table, options, output, calls, arg, ret

vars == <<table, options, output, calls, arg, ret>>

(***************************************************************************)
(* Characters and the string primitives of JavaScript the compiler uses    *)
(***************************************************************************)
TAB == "\t"
LF == "\n"
CR == "\r"
SP == " "
DQ == "\""
BS == "\\"

\* The characters of the model in the order of their UTF-16 code units.
CodeOrder ==
  <<TAB, LF, CR, SP, DQ, "#", "%", ",", "-", "/", "0", "1", "2", "3", "4",
    "5", "6", "7", "8", "9", ":", ";", "=", "A", "B", "C", "E", "F", "H",
    "R", "S", "T", "U", "[", BS, "]", "_", "a", "b", "c", "d", "e", "f",
    "g", "h", "i", "k", "l", "m", "n", "o", "p", "r", "s", "t", "u", "x",
    "y", "|">>

CharCode(c) == CHOOSE i \in 1..Len(CodeOrder) : CodeOrder[i] = c

\* String.prototype.toLowerCase, one character
LowerChar(c) ==
  CASE c = "A" -> "a" [] c = "B" -> "b" [] c = "C" -> "c" [] c = "E" -> "e"
    [] c = "F" -> "f" [] c = "H" -> "h" [] c = "R" -> "r" [] c = "S" -> "s"
    [] c = "T" -> "t" [] c = "U" -> "u" [] OTHER -> c

ToLowerCase(s) == [i \in 1..Len(s) |-> LowerChar(s[i])]

\* The white space String.prototype.trim removes and \s matches
IsSpace(c) == c \in {SP, TAB, LF, CR}

RECURSIVE TrimLeft(_)
TrimLeft(s) ==
  IF s # <<>> /\ IsSpace(Head(s)) THEN TrimLeft(Tail(s)) ELSE s

RECURSIVE TrimRight(_)
TrimRight(s) ==
  IF s # <<>> /\ IsSpace(s[Len(s)])
  THEN TrimRight(SubSeq(s, 1, Len(s) - 1))
  ELSE s

Trim(s) == TrimRight(TrimLeft(s))

\* String.prototype.split(c) for a one-character separator
RECURSIVE Split(_, _)
Split(s, c) ==
  IF \A i \in 1..Len(s) : s[i] # c
  THEN <<s>>
  ELSE LET i == CHOOSE k \in 1..Len(s) :
                  s[k] = c /\ \A j \in 1..(k - 1) : s[j] # c
       IN  <<SubSeq(s, 1, i - 1)>> \o Split(SubSeq(s, i + 1, Len(s)), c)

\* Array.prototype.join(sep)
RECURSIVE Join(_, _)
Join(ss, sep) ==
  IF ss = <<>> THEN <<>>
  ELSE IF Len(ss) = 1 THEN ss[1]
  ELSE ss[1] \o sep \o Join(Tail(ss), sep)

\* String.prototype.replace(/c/g, repl) for a one-character pattern (the
\* text is halved, not walked, to keep the evaluation shallow)
RECURSIVE ReplaceAll(_, _, _)
ReplaceAll(s, c, repl) ==
  IF s = <<>> THEN <<>>
  ELSE IF Len(s) = 1 THEN (IF s[1] = c THEN repl ELSE s)
  ELSE ReplaceAll(SubSeq(s, 1, Len(s) \div 2), c, repl)
       \o ReplaceAll(SubSeq(s, (Len(s) \div 2) + 1, Len(s)), c, repl)

\* String.prototype.split(/\r?\n|\r/)
RECURSIVE SplitLines(_)
SplitLines(s) ==
  IF \A i \in 1..Len(s) : s[i] \notin {CR, LF}
  THEN <<s>>
  ELSE LET i == CHOOSE k \in 1..Len(s) :
                  s[k] \in {CR, LF} /\ \A j \in 1..(k - 1) : s[j] \notin {CR, LF}
           n == IF s[i] = CR /\ i < Len(s) /\ s[i + 1] = LF THEN 2 ELSE 1
       IN  <<SubSeq(s, 1, i - 1)>> \o SplitLines(SubSeq(s, i + n, Len(s)))

\* r1 > r2 on strings: by code unit, a proper prefix is the smaller
RECURSIVE StrGt(_, _)
StrGt(a, b) ==
  IF a = <<>> THEN FALSE
  ELSE IF b = <<>> THEN TRUE
  ELSE IF Head(a) # Head(b) THEN CharCode(Head(a)) > CharCode(Head(b))
  ELSE StrGt(Tail(a), Tail(b))

\* Number to string, as in 'msgstr[' + i + ']'
RECURSIVE NumStr(_)
NumStr(n) ==
  LET d == <<"0", "1", "2", "3", "4", "5", "6", "7", "8", "9">>
  IN  IF n < 10 THEN <<d[n + 1]>> ELSE NumStr(n \div 10) \o <<d[(n % 10) + 1]>>

StartsWith(s, p) == Len(s) >= Len(p) /\ SubSeq(s, 1, Len(p)) = p


(***************************************************************************)
(* Literals of the source                                                  *)
(***************************************************************************)
Str_msgctxt == <<"m", "s", "g", "c", "t", "x", "t">>
Str_msgid == <<"m", "s", "g", "i", "d">>
Str_msgid_plural == Str_msgid \o <<"_", "p", "l", "u", "r", "a", "l">>
Str_msgstr == <<"m", "s", "g", "s", "t", "r">>
Str_charset == <<"c", "h", "a", "r", "s", "e", "t">>
Str_utf8 == <<"u", "t", "f", "-", "8">>
Str_ascii == <<"a", "s", "c", "i", "i">>
Str_text_plain == <<"t", "e", "x", "t", "/", "p", "l", "a", "i", "n">>
Str_content_type ==
  <<"c", "o", "n", "t", "e", "n", "t", "-", "t", "y", "p", "e">>

(***************************************************************************)
(* ./shared (sharedFuncs): formatCharset, foldLine, generateHeader          *)
(***************************************************************************)
\* Lower-cases the name and maps the known alias utf8 to utf-8; any other
\* name, and an unset one, is returned as it is.
formatCharset(charset) ==
  LET lower == ToLowerCase(charset)
  IN  IF lower = <<"u", "t", "f", "8">> THEN Str_utf8 ELSE lower

\* The number of backslashes that end s
RECURSIVE TrailingBackslashes(_)
TrailingBackslashes(s) ==
  IF s # <<>> /\ s[Len(s)] = BS
  THEN 1 + TrailingBackslashes(SubSeq(s, 1, Len(s) - 1))
  ELSE 0

\* The length of the first piece of a non-empty text: at most maxLen
\* characters, one more when that would cut an escape sequence \X in two,
\* and, when text remains after it, cut back to end after its last run of
\* white space.
FoldPieceLen(text, maxLen) ==
  LET n0 == IF Len(text) < maxLen THEN Len(text) ELSE maxLen
      n1 == IF n0 < Len(text) /\ TrailingBackslashes(SubSeq(text, 1, n0)) % 2 = 1
            THEN n0 + 1 ELSE n0
      cuts == {k \in 2..n1 : /\ text[k] = SP
                             /\ TrailingBackslashes(SubSeq(text, 1, k - 1)) % 2 = 0
                             /\ \E j \in 1..(k - 1) : text[j] # SP}
  IN  IF n1 < Len(text) /\ cuts # {}
      THEN CHOOSE k \in cuts : \A j \in cuts : j <= k
      ELSE n1

RECURSIVE foldLine(_, _)
foldLine(text, maxLen) ==
  IF maxLen <= 0 THEN <<text>>
  ELSE IF text = <<>> THEN <<>>
  ELSE LET n == FoldPieceLen(text, maxLen)
       IN  <<SubSeq(text, 1, n)>> \o foldLine(SubSeq(text, n + 1, Len(text)), maxLen)

\* The headers, "key: value", joined by newlines in the mapping's order
generateHeader(headers) ==
  Join([i \in 1..Len(headers) |-> headers[i].key \o <<":", SP>> \o headers[i].value],
       <<LF>>)

(***************************************************************************)
(* Compiler.prototype._addPOString                                         *)
(***************************************************************************)
\* Escape with the backslash replaced last instead of first
Escape_BackslashLast(value) ==
  ReplaceAll(ReplaceAll(ReplaceAll(ReplaceAll(ReplaceAll(value,
    DQ, <<BS, DQ>>), TAB, <<BS, "t">>), CR, <<BS, "r">>), LF, <<BS, "n">>),
    BS, <<BS, BS>>)

Escape(value) ==
  ReplaceAll(ReplaceAll(ReplaceAll(ReplaceAll(ReplaceAll(value,
    BS, <<BS, BS>>), DQ, <<BS, DQ>>), TAB, <<BS, "t">>), CR, <<BS, "r">>),
    LF, <<BS, "n">>)

\* _addPOString taking two pieces for one (lines.length <= 2)
_addPOString_TwoAsOne(opts, key, value) ==
  LET escaped == Escape(value)
      lines == IF opts.foldLength > 0
               THEN foldLine(escaped, opts.foldLength)
               ELSE <<escaped>>
  IN  IF Len(lines) <= 2
      THEN key \o <<SP, DQ>> \o (IF lines = <<>> THEN <<>> ELSE lines[1]) \o <<DQ>>
      ELSE key \o <<SP, DQ, DQ, LF, DQ>> \o Join(lines, <<DQ, LF, DQ>>) \o <<DQ>>

_addPOString(opts, key, value) ==
  LET escaped == Escape(value)
      lines == IF opts.foldLength > 0
               THEN foldLine(escaped, opts.foldLength)
               ELSE <<escaped>>
  IN  IF Len(lines) < 2
      THEN key \o <<SP, DQ>> \o (IF lines = <<>> THEN <<>> ELSE lines[1]) \o <<DQ>>
      ELSE key \o <<SP, DQ, DQ, LF, DQ>> \o Join(lines, <<DQ, LF, DQ>>) \o <<DQ>>

(***************************************************************************)
(* The translation table                                                   *)
(*                                                                         *)
(* table        [keys, charset, headers, translations]; keys holds the     *)
(*              names of the properties the object has                     *)
(* headers      a sequence of [key, value], in the mapping's order         *)
(* translations a sequence of contexts [key, isObject, entries], entries a *)
(*              sequence of [key, val], both in Object.keys order          *)
(* an entry     [isObject, msgctxt, msgid, msgid_plural, msgstr, comments] *)
(* msgstr       [kind, items]: an array of strings, one string, or absent  *)
(***************************************************************************)
NoComments ==
  [translator |-> <<>>, reference |-> <<>>, extracted |-> <<>>,
   flag |-> <<>>, previous |-> <<>>]

NoMsgstr == [kind |-> "absent", items |-> <<>>]

\* The object {}
EmptyObject ==
  [isObject |-> TRUE, msgctxt |-> <<>>, msgid |-> <<>>, msgid_plural |-> <<>>,
   msgstr |-> NoMsgstr, comments |-> NoComments]

\* Whether a msgstr value is truthy: an array is, an empty string is not
Truthy(m) == m.kind = "array" \/ (m.kind = "string" /\ m.items[1] # <<>>)

\* [].concat(m): the array's elements, or the one value (undefined when absent)
Concat(m) == IF m.kind = "array" THEN m.items
             ELSE IF m.kind = "string" THEN m.items
             ELSE <<<<>>>>

HeaderGet(headers, key) ==
  IF \E i \in 1..Len(headers) : headers[i].key = key
  THEN headers[CHOOSE i \in 1..Len(headers) : headers[i].key = key].value
  ELSE <<>>

\* headers[key] = value: in place for a key the mapping has, else appended
HeaderSet(headers, key, value) ==
  IF \E i \in 1..Len(headers) : headers[i].key = key
  THEN [i \in 1..Len(headers) |->
          IF headers[i].key = key THEN [key |-> key, value |-> value]
          ELSE headers[i]]
  ELSE Append(headers, [key |-> key, value |-> value])

(***************************************************************************)
(* Compiler.prototype._drawComments                                        *)
(***************************************************************************)
CommentLines(text, prefix) ==
  IF text = <<>> THEN <<>>
  ELSE LET ls == SplitLines(text)
       IN  [i \in 1..Len(ls) |-> prefix \o ls[i]]

_drawComments(comments) ==
  Join(CommentLines(comments.translator, <<"#", SP>>)
       \o CommentLines(comments.reference, <<"#", ":", SP>>)
       \o CommentLines(comments.extracted, <<"#", ".", SP>>)
       \o CommentLines(comments.flag, <<"#", ",", SP>>)
       \o CommentLines(comments.previous, <<"#", "|", SP>>),
       <<LF>>)

(***************************************************************************)
(* Compiler.prototype._drawBlock                                           *)
(***************************************************************************)
Or(a, b) == IF a # <<>> THEN a ELSE b

\* _drawBlock numbering the plural forms from 1
_drawBlock_IndexFromOne(opts, block, override) ==
  LET comments == IF override.comments # NoComments THEN override.comments
                  ELSE block.comments
      msgctxt == Or(override.msgctxt, block.msgctxt)
      msgid == Or(override.msgid, block.msgid)
      msgidPlural == Or(override.msgid_plural, block.msgid_plural)
      msgstr == Concat(IF Truthy(override.msgstr) THEN override.msgstr
                       ELSE block.msgstr)
      drawn == _drawComments(comments)
      head == (IF drawn # <<>> THEN <<drawn>> ELSE <<>>)
              \o (IF msgctxt # <<>>
                  THEN <<_addPOString(opts, Str_msgctxt, msgctxt)>> ELSE <<>>)
              \o <<_addPOString(opts, Str_msgid, msgid)>>
      tail == IF msgidPlural # <<>>
              THEN <<_addPOString(opts, Str_msgid_plural, msgidPlural)>>
                   \o [i \in 1..Len(msgstr) |->
                         _addPOString(opts,
                           Str_msgstr \o <<"[">> \o NumStr(i) \o <<"]">>,
                           msgstr[i])]
              ELSE <<_addPOString(opts, Str_msgstr,
                                  IF msgstr = <<>> THEN <<>> ELSE msgstr[1])>>
  IN  Join(head \o tail, <<LF>>)

_drawBlock(opts, block, override) ==
  LET comments == IF override.comments # NoComments THEN override.comments
                  ELSE block.comments
      msgctxt == Or(override.msgctxt, block.msgctxt)
      msgid == Or(override.msgid, block.msgid)
      msgidPlural == Or(override.msgid_plural, block.msgid_plural)
      msgstr == Concat(IF Truthy(override.msgstr) THEN override.msgstr
                       ELSE block.msgstr)
      drawn == _drawComments(comments)
      head == (IF drawn # <<>> THEN <<drawn>> ELSE <<>>)
              \o (IF msgctxt # <<>>
                  THEN <<_addPOString(opts, Str_msgctxt, msgctxt)>> ELSE <<>>)
              \o <<_addPOString(opts, Str_msgid, msgid)>>
      tail == IF msgidPlural # <<>>
              THEN <<_addPOString(opts, Str_msgid_plural, msgidPlural)>>
                   \o [i \in 1..Len(msgstr) |->
                         _addPOString(opts,
                           Str_msgstr \o <<"[">> \o NumStr(i - 1) \o <<"]">>,
                           msgstr[i])]
              ELSE <<_addPOString(opts, Str_msgstr,
                                  IF msgstr = <<>> THEN <<>> ELSE msgstr[1])>>
  IN  Join(head \o tail, <<LF>>)

(***************************************************************************)
(* Compiler.prototype._handleCharset                                       *)
(***************************************************************************)
\* parts.map(...) without the test of !charset: the header's value always wins
RECURSIVE MapParams_HeaderWins(_, _)
MapParams_HeaderWins(parts, charset) ==
  IF parts = <<>> THEN [params |-> <<>>, charset |-> charset]
  ELSE LET part == Head(parts)
           kv == Split(part, "=")
           key == Trim(Head(kv))
           value == Join(Tail(kv), <<"=">>)
           isCharset == ToLowerCase(key) = Str_charset
           cs == IF isCharset
                 THEN formatCharset(Or(Trim(value), Str_utf8))
                 ELSE charset
           rest == MapParams_HeaderWins(Tail(parts), cs)
       IN  [params |-> <<IF isCharset THEN Str_charset \o <<"=">> \o cs
                         ELSE part>> \o rest.params,
            charset |-> rest.charset]

\* parts.map(...): the parameters rewritten, and the charset the callback
\* leaves in the enclosing variable
RECURSIVE MapParams(_, _)
MapParams(parts, charset) ==
  IF parts = <<>> THEN [params |-> <<>>, charset |-> charset]
  ELSE LET part == Head(parts)
           kv == Split(part, "=")
           key == Trim(Head(kv))
           value == Join(Tail(kv), <<"=">>)
           isCharset == ToLowerCase(key) = Str_charset
           cs == IF isCharset /\ charset = <<>>
                 THEN formatCharset(Or(Trim(value), Str_utf8))
                 ELSE charset
           rest == MapParams(Tail(parts), cs)
       IN  [params |-> <<IF isCharset THEN Str_charset \o <<"=">> \o cs
                         ELSE part>> \o rest.params,
            charset |-> rest.charset]

_handleCharset(t) ==
  LET parts == Split(Or(HeaderGet(t.headers, Str_content_type), Str_text_plain), ";")
      contentType == Head(parts)
      mapped == MapParams(Tail(parts), formatCharset(t.charset))
      charset == IF mapped.charset = <<>> THEN Or(t.charset, Str_utf8)
                 ELSE mapped.charset
      params == IF mapped.charset = <<>>
                THEN Append(mapped.params, Str_charset \o <<"=">> \o charset)
                ELSE mapped.params
  IN  [t EXCEPT !.keys = @ \cup {"charset"},
                !.charset = charset,
                !.headers = HeaderSet(@, Str_content_type,
                              contentType \o <<";", SP>> \o Join(params, <<";", SP>>))]

(***************************************************************************)
(* Compiler (the constructor)                                              *)
(*                                                                         *)
(* options  [given, has, foldLength, sort]: whether the caller passed an   *)
(*          object, the keys it has, and their values.  sort is one of the *)
(*          values of SortValues; the ones in SortFunctions are functions. *)
(***************************************************************************)
DefaultFoldLength == 76

SortFunctions == {"descending"}

SortValues ==
  {"false", "true", "null", "undefined", "zero", "empty", "one"} \cup SortFunctions

\* The falsy values of JavaScript among SortValues
Falsy == {"false", "null", "undefined", "zero", "empty"}

Compiler(t, o) ==
  LET opts == [given |-> o.given,
               has |-> o.has \cup {"foldLength", "sort"},
               foldLength |-> IF "foldLength" \in o.has THEN o.foldLength
                              ELSE DefaultFoldLength,
               sort |-> IF "sort" \in o.has THEN o.sort ELSE "false"]
  IN  [table |-> _handleCharset([t EXCEPT !.keys = @ \cup {"headers", "translations"}]),
       options |-> opts]

(***************************************************************************)
(* compare and Compiler.prototype.compile                                  *)
(***************************************************************************)
\* compare with its two results exchanged
compare_Swapped(r1, r2) ==
  IF StrGt(r1.msgid, r2.msgid) THEN 0 - 1
  ELSE IF StrGt(r2.msgid, r1.msgid) THEN 1
  ELSE 0

compare(r1, r2) ==
  IF StrGt(r1.msgid, r2.msgid) THEN 1
  ELSE IF StrGt(r2.msgid, r1.msgid) THEN 0 - 1
  ELSE 0

\* A call of the caller's comparator: "descending" is
\* function (a, b) { return compare(b, a) }
CallComparator(fn, r1, r2) == compare(r2, r1)

Comparator(sort, r1, r2) ==
  IF sort \in SortFunctions THEN CallComparator(sort, r1, r2) ELSE compare(r1, r2)

\* Array.prototype.sort: x goes after the elements that do not compare
\* greater than it (a stable insertion sort)
RECURSIVE Insert(_, _, _)
Insert(x, sorted, sort) ==
  IF sorted = <<>> THEN <<x>>
  ELSE IF Comparator(sort, sorted[Len(sorted)], x) > 0
  THEN Append(Insert(x, SubSeq(sorted, 1, Len(sorted) - 1), sort), sorted[Len(sorted)])
  ELSE Append(sorted, x)

RECURSIVE Sort(_, _)
Sort(rs, sort) ==
  IF rs = <<>> THEN <<>>
  ELSE Insert(rs[Len(rs)], Sort(SubSeq(rs, 1, Len(rs) - 1), sort), sort)

\* The inner forEach without the test that skips translations[''][''];
RECURSIVE CollectEntries_KeepsHeader(_, _)
CollectEntries_KeepsHeader(msgctxt, entries) ==
  IF entries = <<>> THEN <<>>
  ELSE (IF ~Head(entries).val.isObject THEN <<>> ELSE <<Head(entries).val>>)
       \o CollectEntries_KeepsHeader(msgctxt, Tail(entries))

\* The inner forEach: the entries of one context that are pushed
RECURSIVE CollectEntries(_, _)
CollectEntries(msgctxt, entries) ==
  IF entries = <<>> THEN <<>>
  ELSE (IF ~Head(entries).val.isObject \/ (msgctxt = <<>> /\ Head(entries).key = <<>>)
        THEN <<>> ELSE <<Head(entries).val>>)
       \o CollectEntries(msgctxt, Tail(entries))

\* The outer forEach
RECURSIVE Collect(_)
Collect(translations) ==
  IF translations = <<>> THEN <<>>
  ELSE (IF Head(translations).isObject
        THEN CollectEntries(Head(translations).key, Head(translations).entries)
        ELSE <<>>)
       \o Collect(Tail(translations))

\* (translations[''] && translations['']['']) || {}
HeaderBlock(translations) ==
  LET ctxs == {i \in 1..Len(translations) :
                 translations[i].key = <<>> /\ translations[i].isObject}
  IN  IF ctxs = {} THEN EmptyObject
      ELSE LET es == translations[CHOOSE i \in ctxs : TRUE].entries
               js == {j \in 1..Len(es) : es[j].key = <<>> /\ es[j].val.isObject}
           IN  IF js = {} THEN EmptyObject ELSE es[CHOOSE j \in js : TRUE].val

compile(t, opts) ==
  LET collected == Collect(t.translations)
      sorted == IF opts.sort # "false" THEN Sort(collected, opts.sort) ELSE collected
      blocks == [i \in 1..Len(sorted) |-> _drawBlock(opts, sorted[i], EmptyObject)]
      header == _drawBlock(opts, HeaderBlock(t.translations),
                  [EmptyObject EXCEPT !.msgstr =
                     [kind |-> "string", items |-> <<generateHeader(t.headers)>>]])
      charset == t.charset
  IN  [text |-> Join(<<header>> \o blocks, <<LF, LF>>),
       encoding |-> IF charset = Str_utf8 \/ charset = Str_ascii THEN Str_utf8
                    ELSE charset]

(***************************************************************************)
(* The inputs: tables and options a caller can pass                        *)
(***************************************************************************)
MaxCalls == 2
MaxEntries == 3
MaxLen == 3
MaxPlurals == 2

Str_latin1 == <<"l", "a", "t", "i", "n", "1">>
Str_UTF8 == <<"U", "T", "F", "8">>
Str_format_flowed ==
  <<"f", "o", "r", "m", "a", "t", "=", "f", "l", "o", "w", "e", "d">>

Charsets == {<<>>, Str_utf8, Str_UTF8, Str_latin1}

\* Values of headers['content-type'] (the empty one: no such header)
ContentTypes ==
  {<<>>,
   Str_text_plain,
   Str_text_plain \o <<";", SP>> \o Str_charset \o <<"=">> \o Str_utf8,
   Str_text_plain \o <<";", SP>> \o Str_charset \o <<"=">> \o Str_UTF8,
   Str_text_plain \o <<";">> \o Str_charset \o <<"=">>,
   Str_text_plain \o <<";", SP>> \o Str_format_flowed,
   Str_text_plain \o <<";", SP>> \o Str_format_flowed
     \o <<";", SP, "C", "h", "a", "r", "s", "e", "t", "=">> \o Str_latin1,
   Str_text_plain \o <<";">> \o Str_charset \o <<"=">> \o Str_ascii
     \o <<";">> \o Str_format_flowed}

LanguageHeader ==
  [key |-> <<"l", "a", "n", "g", "u", "a", "g", "e">>, value |-> <<"d", "e">>]

HeadersOf(contentType, withLanguage) ==
  (IF withLanguage THEN <<LanguageHeader>> ELSE <<>>)
  \o (IF contentType = <<>> THEN <<>>
      ELSE <<[key |-> Str_content_type, value |-> contentType]>>)

\* An entry as the parser stores it: msgid is its key, msgctxt its context
Entry(msgctxt, msgid, msgidPlural, items) ==
  [isObject |-> TRUE, msgctxt |-> msgctxt, msgid |-> msgid,
   msgid_plural |-> msgidPlural,
   msgstr |-> [kind |-> "array", items |-> items], comments |-> NoComments]

Context(msgctxt, msgids) ==
  [key |-> msgctxt, isObject |-> TRUE,
   entries |-> [i \in 1..Len(msgids) |->
                  [key |-> msgids[i],
                   val |-> Entry(msgctxt, msgids[i], <<>>, <<<<"x">> \o msgids[i]>>)]]]

\* A value that is not an object, stored where an entry or a context belongs
NotAnObject == [EmptyObject EXCEPT !.isObject = FALSE]

Msgids == {<<>>, <<"a">>, <<"b">>, <<"B">>, <<"a", "b">>}

\* The sequences of at most n distinct keys
KeyLists(keys, n) ==
  {ks \in UNION {[1..k -> keys] : k \in 0..n} :
     \A i, j \in 1..Len(ks) : i # j => ks[i] # ks[j]}

\* Translations: the default context with up to MaxEntries entries (the
\* empty key is the header's placeholder), then possibly a second context
\* that repeats some msgids, or a value that is not an object
SecondContexts ==
  {<<>>,
   <<Context(<<"c">>, <<<<"a">>>>)>>,
   <<Context(<<"c">>, <<<<"b">>, <<"a">>>>)>>,
   <<[key |-> <<"c">>, isObject |-> FALSE, entries |-> <<>>]>>,
   <<[key |-> <<"c">>, isObject |-> TRUE,
      entries |-> <<[key |-> <<"a">>, val |-> NotAnObject],
                    [key |-> <<>>, val |-> Entry(<<"c">>, <<>>, <<>>, <<<<"e">>>>)]>>]>>}

TranslationsSet ==
  {(IF ks = <<>> THEN <<>> ELSE <<Context(<<>>, ks)>>) \o second :
     ks \in KeyLists(Msgids, MaxEntries), second \in SecondContexts}

Table(charset, headers, translations) ==
  [keys |-> (IF charset # <<>> THEN {"charset"} ELSE {})
            \cup (IF headers # <<>> THEN {"headers"} ELSE {})
            \cup (IF translations # <<>> THEN {"translations"} ELSE {}),
   charset |-> charset, headers |-> headers, translations |-> translations]

NoOptions == [given |-> FALSE, has |-> {}, foldLength |-> 0, sort |-> "undefined"]

Options(has, foldLength, sort) ==
  [given |-> TRUE, has |-> has,
   foldLength |-> IF "foldLength" \in has THEN foldLength ELSE 0,
   sort |-> IF "sort" \in has THEN sort ELSE "undefined"]

NoOutput == [text |-> <<>>, encoding |-> <<>>]

\* Tables that differ in charset and content-type
CharsetTables ==
  {Table(cs, HeadersOf(ct, lang), <<Context(<<>>, <<<<>>, <<"a">>>>)>>) :
     cs \in Charsets, ct \in ContentTypes, lang \in BOOLEAN}

CharsetOptions ==
  {NoOptions, Options({}, 0, "false"), Options({"foldLength", "sort"}, 0, "true")}

\* Tables that differ in their translations
SortTables ==
  {Table(Str_utf8,
         HeadersOf(Str_text_plain \o <<";", SP>> \o Str_charset \o <<"=">> \o Str_utf8,
                   FALSE),
         tr) : tr \in TranslationsSet}

SortOptions ==
  {NoOptions} \cup {Options({"sort"}, 0, sort) : sort \in SortValues}
  \cup {Options({"foldLength", "sort"}, 0, sort) : sort \in {"false", "true"}}

(***************************************************************************)
(* module.exports = function (table, options): one call of compilePO       *)
(***************************************************************************)
Init ==
  /\ \/ table \in CharsetTables /\ options \in CharsetOptions
     \/ table \in SortTables /\ options \in SortOptions
  /\ output = NoOutput
  /\ calls = 0
  /\ arg = <<>>
  /\ ret = <<>>

\* A caller that passed no options object has none to see changed
CompilePO ==
  /\ calls < MaxCalls
  /\ LET compiler == Compiler(table, options)
     IN  /\ table' = compiler.table
         /\ options' = IF options.given THEN compiler.options ELSE options
         /\ output' = compile(compiler.table, compiler.options)
  /\ calls' = calls + 1
  /\ UNCHANGED <<arg, ret>>

Next == CompilePO

Spec == Init /\ [][Next]_vars

(***************************************************************************)
(* _addPOString alone: a constructed compiler renders one key and value    *)
(***************************************************************************)
\* The characters _addPOString escapes, and some it does not
EscapeAlphabet == {BS, DQ, TAB, CR, LF, SP, "a", "n"}

\* A value longer than the default fold length, with white space in it
LongValue == [i \in 1..(DefaultFoldLength + MaxLen) |-> IF i % 10 = 0 THEN SP ELSE "a"]

StringValues == UNION {[1..k -> EscapeAlphabet] : k \in 0..MaxLen}

\* Options without foldLength, which the constructor sets to the default
DefaultOptions == {NoOptions, Options({}, 0, "false")}

StringOptions ==
  DefaultOptions \cup {Options({"foldLength"}, n, "false") : n \in (0 - 1)..MaxLen}

InitString ==
  /\ \E o \in StringOptions :
       LET compiler == Compiler(Table(<<>>, <<>>, <<>>), o)
       IN  table = compiler.table /\ options = compiler.options
  /\ output = NoOutput
  /\ calls = 0
  /\ \/ arg \in [key : {Str_msgstr}, value : StringValues]
     \/ /\ options.foldLength \in {0, DefaultFoldLength}
        /\ arg = [key |-> Str_msgstr, value |-> LongValue]
  /\ ret = <<>>

AddPOString ==
  /\ calls = 0
  /\ ret' = _addPOString(options, arg.key, arg.value)
  /\ calls' = 1
  /\ UNCHANGED <<table, options, output, arg>>

SpecString == InitString /\ [][AddPOString]_vars

(***************************************************************************)
(* Reading PO text back (the parser's rules for quoted strings)            *)
(***************************************************************************)
\* Whether the backslash at position i of s starts an escape sequence: an
\* even number of backslashes comes right before it, and a character after
StartsEscape(s, i) ==
  /\ i >= 1
  /\ i < Len(s)
  /\ s[i] = BS
  /\ TrailingBackslashes(SubSeq(s, 1, i - 1)) % 2 = 0

\* \t, \r, \n, \\ and \" reversed to the literal characters
Unescape(s) ==
  LET decoded == [i \in 1..Len(s) |->
                    IF StartsEscape(s, i) THEN ""
                    ELSE IF StartsEscape(s, i - 1)
                    THEN CASE s[i] = "t" -> TAB [] s[i] = "r" -> CR [] s[i] = "n" -> LF
                           [] OTHER -> s[i]
                    ELSE s[i]]
  IN  SelectSeq(decoded, LAMBDA c : c # "")

\* No double quote, TAB, CR or LF outside an escape sequence
NoRawSpecials(s) ==
  \A i \in 1..Len(s) :
    IF StartsEscape(s, i - 1) THEN s[i] \notin {TAB, CR, LF}
    ELSE s[i] \notin {DQ, TAB, CR, LF}

\* The text between the quotes of a quoted string
Unquote(q) == SubSeq(q, 2, Len(q) - 1)

IsQuoted(q) == Len(q) >= 2 /\ Head(q) = DQ /\ q[Len(q)] = DQ

\* The quoted fragments of a rendered field: the one after the key on
\* its first line, then one per continuation line
Fragments(key, lines) ==
  [i \in 1..Len(lines) |->
     Unquote(IF i = 1 THEN SubSeq(lines[1], Len(key) + 2, Len(lines[1]))
             ELSE lines[i])]

Concatenation(ss) == Join(ss, <<>>)

(***************************************************************************)
(* C5: escaping round-trips                                                *)
(***************************************************************************)
\* C5: for every string s, the text _addPOString puts between the quotes
\* (unfolded) unescapes to s and holds no raw double quote, TAB, CR or LF.
C5_EscapeRoundTrip ==
  calls = 1 =>
    LET lines == Split(ret, LF)
        escaped == Concatenation(Fragments(arg.key, lines))
    IN  /\ StartsWith(ret, arg.key \o <<SP, DQ>>)
        /\ Unescape(escaped) = arg.value
        /\ NoRawSpecials(escaped)

\* A value with a backslash before an n, a quote and a line feed was rendered
C5_Witness ==
  /\ calls = 1
  /\ options.foldLength <= 0
  /\ arg.value = <<BS, "n", LF>>
  /\ ret = arg.key \o <<SP, DQ, BS, BS, "n", BS, "n", DQ>>

(***************************************************************************)
(* C9: how a field is rendered                                             *)
(***************************************************************************)
\* C9: with foldLength <= 0 a field is the one line key "escaped"; with
\* foldLength > 0 the escaped value goes through foldLine, two or more
\* pieces give the line key "" and then one quoted line per piece, fewer give
\* the one line key "piece"; the quoted fragments always concatenate to the
\* escaped value.
C9_FieldRendering ==
  calls = 1 =>
    LET escaped == Escape(arg.value)
        lines == Split(ret, LF)
        pieces == foldLine(escaped, options.foldLength)
        oneLine(text) == <<arg.key \o <<SP, DQ>> \o text \o <<DQ>>>>
    IN  /\ options.foldLength <= 0 => lines = oneLine(escaped)
        /\ (options.foldLength > 0 /\ Len(pieces) >= 2) =>
             lines = <<arg.key \o <<SP, DQ, DQ>>>>
                     \o [i \in 1..Len(pieces) |-> <<DQ>> \o pieces[i] \o <<DQ>>]
        /\ (options.foldLength > 0 /\ Len(pieces) = 1) => lines = oneLine(pieces[1])
        /\ (options.foldLength > 0 /\ Len(pieces) = 0) => lines = oneLine(<<>>)
        /\ \A i \in 1..Len(lines) :
             IsQuoted(IF i = 1 THEN SubSeq(lines[1], Len(arg.key) + 2, Len(lines[1]))
                      ELSE lines[i])
        /\ Concatenation(Fragments(arg.key, lines)) = escaped

\* The long value was folded at the default fold length into two pieces
C9_Witness ==
  /\ calls = 1
  /\ options.foldLength = DefaultFoldLength
  /\ arg.value = LongValue
  /\ Len(Split(ret, LF)) = 3
  /\ Split(ret, LF)[1] = arg.key \o <<SP, DQ, DQ>>

(***************************************************************************)
(* _drawBlock alone: a constructed compiler renders one entry              *)
(***************************************************************************)
MsgstrItems == {<<>>, <<"x">>, <<"y", SP, DQ>>}

BlockComments ==
  {NoComments,
   [NoComments EXCEPT !.translator = <<"h", "i", CR, LF, "y", "o">>,
                      !.flag = <<"f", "u", "z", "z", "y">>]}

BlockEntries ==
  {[isObject |-> TRUE, msgctxt |-> msgctxt, msgid |-> msgid,
    msgid_plural |-> plural, msgstr |-> msgstr, comments |-> comments] :
     msgctxt \in {<<>>, <<"c">>},
     msgid \in {<<>>, <<"a">>, <<"a", LF, "b">>},
     plural \in {<<>>, <<"a", "s">>},
     msgstr \in {NoMsgstr}
                \cup {[kind |-> "array", items |-> items] :
                        items \in UNION {[1..k -> MsgstrItems] : k \in 0..MaxPlurals}},
     comments \in BlockComments}

BlockOptions ==
  {NoOptions, Options({"foldLength"}, 0, "false"), Options({"foldLength"}, 2, "false")}

InitBlock ==
  /\ \E o \in BlockOptions :
       LET compiler == Compiler(Table(<<>>, <<>>, <<>>), o)
       IN  table = compiler.table /\ options = compiler.options
  /\ output = NoOutput
  /\ calls = 0
  /\ arg \in BlockEntries
  /\ ret = <<>>

DrawBlock ==
  /\ calls = 0
  /\ ret' = _drawBlock(options, arg, EmptyObject)
  /\ calls' = 1
  /\ UNCHANGED <<table, options, output, arg>>

SpecBlock == InitBlock /\ [][DrawBlock]_vars

\* The fields of a block: each line that is neither a comment nor a quoted
\* continuation starts a field, key then quoted string; a continuation line
\* is appended to the field before it
KeyLen(line) ==
  IF \E i \in 1..Len(line) : line[i] = SP
  THEN (CHOOSE i \in 1..Len(line) : line[i] = SP /\ \A j \in 1..(i - 1) : line[j] # SP) - 1
  ELSE Len(line)

RECURSIVE RawFields(_, _)
RawFields(lines, fields) ==
  IF lines = <<>> THEN fields
  ELSE LET line == Head(lines)
       IN  IF line = <<>> \/ Head(line) = "#" THEN RawFields(Tail(lines), fields)
           ELSE IF Head(line) = DQ /\ fields # <<>>
           THEN RawFields(Tail(lines),
                  [fields EXCEPT ![Len(fields)].raw = @ \o Unquote(line)])
           ELSE RawFields(Tail(lines),
                  Append(fields,
                    [key |-> SubSeq(line, 1, KeyLen(line)),
                     raw |-> Unquote(SubSeq(line, KeyLen(line) + 2, Len(line)))]))

Fields(block) ==
  LET raw == RawFields(Split(block, LF), <<>>)
  IN  [i \in 1..Len(raw) |-> [key |-> raw[i].key, value |-> Unescape(raw[i].raw)]]

Field(key, value) == [key |-> key, value |-> value]

RECURSIVE SplitBlocks(_)
SplitBlocks(text) ==
  LET ends == {i \in 1..(Len(text) - 1) : text[i] = LF /\ text[i + 1] = LF}
  IN  IF ends = {} THEN <<text>>
      ELSE LET i == CHOOSE k \in ends : \A j \in ends : k <= j
           IN  <<SubSeq(text, 1, i - 1)>> \o SplitBlocks(SubSeq(text, i + 2, Len(text)))

\* The value of the first field of a block with the given key
FieldValue(block, key) ==
  LET fields == Fields(block)
      at == {i \in 1..Len(fields) : fields[i].key = key}
  IN  IF at = {} THEN <<>> ELSE fields[CHOOSE i \in at : \A j \in at : i <= j].value

\* The fields an entry of the table reads back as
EntryFields(entry) ==
  (IF entry.msgctxt # <<>> THEN <<Field(Str_msgctxt, entry.msgctxt)>> ELSE <<>>)
  \o <<Field(Str_msgid, entry.msgid)>>
  \o (IF entry.msgid_plural # <<>>
      THEN <<Field(Str_msgid_plural, entry.msgid_plural)>>
           \o [n \in 1..Len(entry.msgstr.items) |->
                 Field(Str_msgstr \o <<"[">> \o NumStr(n - 1) \o <<"]">>,
                       entry.msgstr.items[n])]
      ELSE <<Field(Str_msgstr, IF entry.msgstr.items = <<>> THEN <<>>
                               ELSE entry.msgstr.items[1])>>)

\* The positions <<context, entry>> of a table's entries other than the
\* header's placeholder at translations[""][""]
EntryPositions(translations) ==
  {p \in UNION {{<<i, j>> : j \in 1..Len(translations[i].entries)} :
                  i \in 1..Len(translations)} :
     /\ translations[p[1]].isObject
     /\ translations[p[1]].entries[p[2]].val.isObject
     /\ ~(translations[p[1]].key = <<>> /\ translations[p[1]].entries[p[2]].key = <<>>)}

\* Positions in traversal order: by context, then by entry
RECURSIVE InOrder(_)
InOrder(positions) ==
  IF positions = {} THEN <<>>
  ELSE LET first == CHOOSE p \in positions : \A q \in positions :
                      p[1] < q[1] \/ (p[1] = q[1] /\ p[2] <= q[2])
       IN  <<first>> \o InOrder(positions \ {first})

\* The table's entries in context -> msgid traversal order
TraversalOrder(translations) ==
  LET ps == InOrder(EntryPositions(translations))
  IN  [k \in 1..Len(ps) |-> translations[ps[k][1]].entries[ps[k][2]].val]

\* The sort option in effect: false when the caller gave none
EffectiveSort ==
  IF options.given /\ "sort" \in options.has THEN options.sort ELSE "false"

\* The blocks after the header block, read back as fields
EmittedEntries ==
  LET blocks == Tail(SplitBlocks(output.text))
  IN  [k \in 1..Len(blocks) |-> Fields(blocks[k])]

ExpectedEntries ==
  LET entries == TraversalOrder(table.translations)
  IN  [k \in 1..Len(entries) |-> EntryFields(entries[k])]

Count(seq, x) == Cardinality({k \in 1..Len(seq) : seq[k] = x})

IsPermutation(a, b) ==
  /\ Len(a) = Len(b)
  /\ \A k \in 1..Len(a) : Count(a, a[k]) = Count(b, a[k])

MsgidOf(fields) ==
  fields[CHOOSE i \in 1..Len(fields) : fields[i].key = Str_msgid].value

NonDecreasing(entries) ==
  \A k \in 1..(Len(entries) - 1) : ~StrGt(MsgidOf(entries[k]), MsgidOf(entries[k + 1]))

NonIncreasing(entries) ==
  \A k \in 1..(Len(entries) - 1) : ~StrGt(MsgidOf(entries[k + 1]), MsgidOf(entries[k]))

(***************************************************************************)
(* C2: sort: true                                                          *)
(***************************************************************************)
\* C2: compiled with sort: true, the entry blocks are in non-decreasing
\* msgid order and are a permutation of the table's non-header entries.
C2_SortTrue ==
  (calls >= 1 /\ EffectiveSort = "true") =>
    /\ NonDecreasing(EmittedEntries)
    /\ IsPermutation(EmittedEntries, ExpectedEntries)

\* Entries inserted as b, a under "" and b, a under "c" came out a, a, b, b
C2_Witness ==
  /\ calls >= 1
  /\ EffectiveSort = "true"
  /\ Len(table.translations) = 2
  /\ [k \in 1..Len(ExpectedEntries) |-> MsgidOf(ExpectedEntries[k])]
       = <<<<"b">>, <<"a">>, <<"b">>, <<"a">>>>
  /\ [k \in 1..Len(EmittedEntries) |-> MsgidOf(EmittedEntries[k])]
       = <<<<"a">>, <<"a">>, <<"b">>, <<"b">>>>

(***************************************************************************)
(* C3: sort: false                                                         *)
(***************************************************************************)
\* C3: compiled with sort: false, the output is the synthesized header
\* block (msgid "", msgstr the generated header text), then one block per
\* entry in traversal order, the blocks separated by one blank line; the
\* entry at translations[""][""] is not among them: N entries, N + 1 blocks.
C3_Unsorted ==
  (calls >= 1 /\ EffectiveSort = "false") =>
    LET blocks == SplitBlocks(output.text)
    IN  /\ Len(blocks) = Cardinality(EntryPositions(table.translations)) + 1
        /\ Fields(blocks[1]) = <<Field(Str_msgid, <<>>),
                                 Field(Str_msgstr, generateHeader(table.headers))>>
        /\ EmittedEntries = ExpectedEntries
        /\ \A k \in 1..Len(blocks) :
             blocks[k] # <<>> /\ Head(blocks[k]) # LF /\ blocks[k][Len(blocks[k])] # LF

\* A table with a header placeholder and entries b, a was compiled unsorted
C3_Witness ==
  /\ calls >= 1
  /\ EffectiveSort = "false"
  /\ Len(table.translations) = 1
  /\ Len(table.translations[1].entries) = 3
  /\ table.translations[1].entries[1].key = <<>>
  /\ Len(SplitBlocks(output.text)) = 3
  /\ [k \in 1..Len(EmittedEntries) |-> MsgidOf(EmittedEntries[k])] = <<<<"b">>, <<"a">>>>

(***************************************************************************)
(* The content-type header                                                 *)
(***************************************************************************)
\* The parameters of a content-type value: what follows its first ";"
Parameters(contentType) == Tail(Split(contentType, ";"))

IsCharsetParameter(part) == ToLowerCase(Trim(Head(Split(part, "=")))) = Str_charset

ParameterValue(part) == Join(Tail(Split(part, "=")), <<"=">>)

\* The values of the charset= parameters of a content-type value, in order
CharsetValues(contentType) ==
  LET charsets == SelectSeq(Parameters(contentType), IsCharsetParameter)
  IN  [i \in 1..Len(charsets) |-> ParameterValue(charsets[i])]

\* The content-type line of the emitted header block
EmittedContentType ==
  LET header == SplitLines(FieldValue(SplitBlocks(output.text)[1], Str_msgstr))
      prefix == Str_content_type \o <<":", SP>>
      at == {i \in 1..Len(header) : StartsWith(header[i], prefix)}
  IN  IF at = {} THEN <<>>
      ELSE LET line == header[CHOOSE i \in at : TRUE]
           IN  SubSeq(line, Len(prefix) + 1, Len(line))

(***************************************************************************)
(* C1: header sync                                                         *)
(***************************************************************************)
\* C1: after compilePO the emitted content-type header has a charset=
\* parameter, and its value is the table's resolved charset.
C1_HeaderSync ==
  calls >= 1 =>
    /\ CharsetValues(EmittedContentType) # <<>>
    /\ \A i \in 1..Len(CharsetValues(EmittedContentType)) :
         CharsetValues(EmittedContentType)[i] = table.charset

(***************************************************************************)
(* C6: which charset wins                                                  *)
(***************************************************************************)
\* C6: in a call of compilePO, a table without charset takes the charset=
\* value of its content-type header (normalized); a table with a charset
\* keeps it (normalized) and every charset= parameter of the header is
\* overwritten with it; with neither, the charset is utf-8.
C6_CharsetPrecedence ==
  [][calls' = calls + 1 =>
       LET given == CharsetValues(HeaderGet(table.headers, Str_content_type))
           after == CharsetValues(HeaderGet(table'.headers, Str_content_type))
       IN  /\ (table.charset = <<>> /\ given # <<>> /\ Trim(given[1]) # <<>>) =>
                table'.charset = formatCharset(Trim(given[1]))
           /\ table.charset # <<>> =>
                /\ table'.charset = formatCharset(table.charset)
                /\ Len(after) = Len(given)
                /\ \A i \in 1..Len(after) : after[i] = table'.charset
           /\ (table.charset = <<>> /\ \A i \in 1..Len(given) : Trim(given[i]) = <<>>) =>
                table'.charset = Str_utf8]_vars

\* A table without charset took ascii from "text/plain;charset=ascii;..."
C6_Witness ==
  /\ calls = 1
  /\ table.charset = Str_ascii
  /\ CharsetValues(HeaderGet(table.headers, Str_content_type)) = <<Str_ascii>>

(***************************************************************************)
(* C7: the caller's table and options                                      *)
(***************************************************************************)
\* C7: a call of compilePO leaves the caller's table (charset, headers,
\* translations and their order) and the caller's options object unchanged.
C7_Pure ==
  [][calls' = calls + 1 => (table' = table /\ options' = options)]_vars

(***************************************************************************)
(* C8: when entries are reordered                                          *)
(***************************************************************************)
\* C8: for every falsy sort value the entries are emitted in traversal
\* order; a function is used as the comparator; any other truthy value
\* sorts by msgid with the default comparison.
C8_SortOnlyWhenTruthy ==
  calls >= 1 =>
    /\ EffectiveSort \in Falsy => EmittedEntries = ExpectedEntries
    /\ EffectiveSort \in SortFunctions =>
         NonIncreasing(EmittedEntries) /\ IsPermutation(EmittedEntries, ExpectedEntries)
    /\ EffectiveSort \notin (Falsy \cup SortFunctions) =>
         NonDecreasing(EmittedEntries) /\ IsPermutation(EmittedEntries, ExpectedEntries)

(***************************************************************************)
(* C10: compiling again                                                    *)
(***************************************************************************)
\* C10: a second or later call of compilePO on the same table and options
\* gives the same output as the call before it, and leaves
\* headers['content-type'] and charset as the first call left them.
C10_RepeatStable ==
  [][(calls >= 1 /\ calls' = calls + 1) =>
       /\ output' = output
       /\ HeaderGet(table'.headers, Str_content_type)
            = HeaderGet(table.headers, Str_content_type)
       /\ table'.charset = table.charset]_vars

=============================================================================
